---- MODULE Spec2Model ----
(***************************************************************************)
(* The image pipeline of deck (src/preload.go): preloadCurrentImages,      *)
(* startUploadingImages and cleanupUploadedImages, with their worker       *)
(* goroutines, the errgroup scopes, the weighted semaphores and the        *)
(* buffered channels between them.                                         *)
(***************************************************************************)
EXTENDS Integers, Sequences, FiniteSets, TLC

\* ---------------------------------------------------------------- bounds
\* Preload specification: page elements of the first slide, actions per
\* batch, and fetch tasks a batch may give rise to.
MaxElems == 2
MaxActions == 2
MaxTasks == 4
\* Pipeline specification: desired Image objects in the pool.
NumImages == 4
\* Timed specification: the last instant of the clock.
MaxClock == 2

\* Clock instants per second: the clock is finer than the names made from it.
TicksPerSecond == 2

\* src/preload.go:15
maxPreloadWorkersNum == 4

\* Tasks per stage in the stress specification: one more than the limiter admits.
StressTasks == maxPreloadWorkersNum + 1

NoErr == "none"
\* The nil *Image, the nil *Slide, the empty URL, the zero uploadedImageInfo.
NilImage == [id |-> <<"nil", 0>>, content |-> 0]
NilSlide == [isNil |-> TRUE, Images |-> <<>>]
NoURL == <<"", 0>>
NoInfo == [resourceID |-> <<"", 0>>, image |-> 0]
NoRet == [publicURL |-> NoURL, resourceID |-> <<"", 0>>]

\* ------------------------------------------------------------- variables
VARIABLES
    slides,          \* d.presentation.Slides: sequence of slides, each a sequence of page elements
    actions,         \* the batch of actions handed to the three operations
    images,          \* the desired Image objects: id -> [content, uploadState, url, uploadError]
    ctxCancelled,    \* the caller's context has been cancelled
    backend,         \* d.imageUploader: "gdrive" | "s3" | "gcs"
    now,             \* time.Now(), in clock instants
    \* preloadCurrentImages
    preState,        \* "idle" | "waiting" (at eg.Wait) | "merging" | "returned"
    imagesToPreload, \* the collected imageToPreload records
    fetchPc,         \* fetch task -> "acquire" | "fetching" | "ok" | "err" | "refused"
    resultCh,        \* buffered channel of imageResult
    preErr,          \* first error recorded by the preload errgroup
    result,          \* the map under construction: slide index -> currentImageData
    preRet,          \* the returned pair [snap, snapNil, err]
    \* startUploadingImages
    upState,         \* "idle" | "selected" | "claimed" | "spawned" | "returned"
    imagesToUpload,  \* the selected images, in selection order
    workerPc,        \* selected image -> "acquire" | "uploading" | "failing" | "publish" | "done"
    uploadedCh,      \* [buf, cap, closed, closes, sendOnClosed]
    coordPc,         \* background goroutine: "none" | "waiting" | "closed"
    upErr,           \* first error recorded by the upload errgroup
    uploadCalls,     \* image -> number of backend Upload invocations
    uploadRet,       \* image -> what the backend Upload returned
    published,       \* image -> number of completion events sent for it
    filename,        \* image -> the name its worker generated for the upload
    startCalls,      \* image -> number of StartUpload calls on it
    resultCalls,     \* image -> number of SetUploadResult calls on it
    \* cleanupUploadedImages
    clState,         \* "idle" | "select" | "acquire" | "wgWait" | "returned"
    clInfo,          \* the event just received
    received,        \* image -> number of its events received from the stream
    deletePc,        \* image of an event -> deletion goroutine [pc, resourceID, calls]
    clRet            \* the returned error

envVars == <<slides, actions, backend, now>>
preVars == <<preState, imagesToPreload, fetchPc, resultCh, preErr, result, preRet>>
upVars == <<upState, imagesToUpload, workerPc, uploadedCh, coordPc, upErr,
            uploadCalls, uploadRet, published, filename, startCalls, resultCalls>>
clVars == <<clState, clInfo, received, deletePc, clRet>>
vars == <<slides, actions, images, ctxCancelled, backend, now, filename, startCalls,
          resultCalls, preState, imagesToPreload, fetchPc,
          resultCh, preErr, result, preRet, upState, imagesToUpload, workerPc, uploadedCh,
          coordPc, upErr, uploadCalls, uploadRet, published, clState, clInfo,
          received, deletePc, clRet>>

\* ------------------------------------------------------------- utilities
SeqsUpTo(S, n) == UNION {[1..k -> S] : k \in 0..n}

Range(s) == {s[k] : k \in DOMAIN s}

\* ----------------------------------------------------------- input space
\* A page element: an embedded image (with a content URL, possibly empty), an
\* image placeholder, or an element that is no image at all.
ElemKinds == {"image", "placeholder", "nourl", "shape"}

\* The content found at the URL of element e of slide s (0-based slide index).
UrlOf(s, e) == 10 * (s + 1) + e

\* Slide s with one page element per entry of kinds: image is element.Image
\* being set, placeholder is element.Image.Placeholder being set, contentUrl 0
\* is the empty string.
MkSlide(s, kinds) ==
    [e \in DOMAIN kinds |->
        [image |-> kinds[e] # "shape",
         placeholder |-> kinds[e] = "placeholder",
         contentUrl |-> IF kinds[e] \in {"nourl", "shape"} THEN 0 ELSE UrlOf(s, e),
         objectId |-> <<s, e>>]]

\* ------------------------------------------------- preloadCurrentImages
\* Variant of Eligible: placeholder images are collected too.
EligibleWithPlaceholders(element) ==
    /\ element.image
    /\ element.contentUrl # 0

\* The condition of the collection loop on one page element.
Eligible(element) ==
    /\ element.image                 \* element.Image != nil
    /\ ~element.placeholder          \* element.Image.Placeholder == nil
    /\ element.contentUrl # 0        \* element.Image.ContentUrl != ""

\* Variant of CollectSlide: imageIndex is the position of the element among
\* all the page elements of the slide.
CollectSlideByPosition(index, elements, p, k) ==
    LET RECURSIVE From(_)
        From(q) ==
            IF q > Len(elements) THEN <<>>
            ELSE IF Eligible(elements[q])
                 THEN <<[slideIndex |-> index, imageIndex |-> q - 1,
                         existingURL |-> elements[q].contentUrl,
                         objectID |-> elements[q].objectId]>> \o From(q + 1)
                 ELSE From(q + 1)
    IN From(p)

\* The inner loop over currentSlide.PageElements, from element p on, with
\* imageIndexInSlide = k.
RECURSIVE CollectSlide(_, _, _, _)
CollectSlide(index, elements, p, k) ==
    IF p > Len(elements) THEN <<>>
    ELSE IF Eligible(elements[p])
         THEN <<[slideIndex |-> index, imageIndex |-> k,
                 existingURL |-> elements[p].contentUrl,
                 objectID |-> elements[p].objectId]>>
              \o CollectSlide(index, elements, p + 1, k + 1)
         ELSE CollectSlide(index, elements, p + 1, k)

\* The outer loop over the actions, from action a on.
RECURSIVE CollectImages(_, _, _)
CollectImages(acts, sl, a) ==
    IF a > Len(acts) THEN <<>>
    ELSE (IF acts[a].actionType = "update" /\ acts[a].index < Len(sl)
          THEN CollectSlide(acts[a].index, sl[acts[a].index + 1], 1, 0)
          ELSE <<>>)
         \o CollectImages(acts, sl, a + 1)

\* NewImage / NewImageFromMarkdown on the URL of fetch task t: a fresh Image
\* object holding the content found at the URL.
NewImage(t, url) == [id |-> <<"current", t>>, content |-> url]

\* The scope of the preload errgroup: done when the caller's context is, or
\* once a task has returned an error.
PreCtxDone == ctxCancelled \/ preErr # NoErr

PreHolders == {t \in DOMAIN fetchPc : fetchPc[t] = "fetching"}

\* Variant of PreAllDone: the wait ends with the first task that returns.
PreAllDoneAny == \E t \in DOMAIN fetchPc : fetchPc[t] \in {"ok", "err", "refused"}

\* eg.Wait has returned: every fetch task has.
PreAllDone == \A t \in DOMAIN fetchPc : fetchPc[t] \in {"ok", "err", "refused"}

\* Variant of MergeOne: the image is appended in arrival order, not placed at
\* its recorded index.
MergeOneAppend(acc, res) ==
    LET cur == IF res.slideIndex \in DOMAIN acc
               THEN acc[res.slideIndex]
               ELSE [currentImages |-> <<>>, currentImageObjectIDMap |-> {}]
        entry == [currentImages |-> Append(cur.currentImages, res.image),
                  currentImageObjectIDMap |->
                      cur.currentImageObjectIDMap \cup {<<res.image, res.objectID>>}]
    IN  [s \in (DOMAIN acc) \cup {res.slideIndex} |->
            IF s = res.slideIndex THEN entry ELSE acc[s]]

\* One iteration of the merge loop: res is placed into the map acc.
MergeOne(acc, res) ==
    LET cur == IF res.slideIndex \in DOMAIN acc
               THEN acc[res.slideIndex]
               ELSE [currentImages |-> <<>>, currentImageObjectIDMap |-> {}]
        grown == IF Len(cur.currentImages) <= res.imageIndex
                 THEN [k \in 1..(res.imageIndex + 1) |->
                          IF k <= Len(cur.currentImages) THEN cur.currentImages[k] ELSE NilImage]
                 ELSE cur.currentImages
        placed == [grown EXCEPT ![res.imageIndex + 1] = res.image]
        idmap == {m \in cur.currentImageObjectIDMap : m[1] # res.image}
                 \cup {<<res.image, res.objectID>>}
        entry == [currentImages |-> placed, currentImageObjectIDMap |-> idmap]
    IN  [s \in (DOMAIN acc) \cup {res.slideIndex} |->
            IF s = res.slideIndex THEN entry ELSE acc[s]]

EmptyMap == [s \in {} |-> [currentImages |-> <<>>, currentImageObjectIDMap |-> {}]]

\* What preloadCurrentImages returns: the map, or nil and the error.
PreloadSuccess(res) == [snap |-> res, snapNil |-> FALSE, err |-> NoErr]

PreloadFailure(res, err) == [snap |-> EmptyMap, snapNil |-> TRUE, err |-> err]

\* Lines 42-87: collect; with nothing to preload return the empty map, else
\* start one goroutine per image and go to eg.Wait.
PreloadStart ==
    /\ preState = "idle"
    /\ LET col == CollectImages(actions, slides, 1) IN
       /\ imagesToPreload' = col
       /\ IF Len(col) = 0
          THEN /\ preState' = "returned"
               /\ preRet' = PreloadSuccess(EmptyMap)
               /\ fetchPc' = fetchPc
          ELSE /\ preState' = "waiting"
               /\ preRet' = preRet
               /\ fetchPc' = [t \in 1..Len(col) |-> "acquire"]
    /\ UNCHANGED <<envVars, images, ctxCancelled, resultCh, preErr, result, upVars, clVars>>

\* sem.Acquire(ctx, 1) succeeds: a slot is free and the scope is live.
FetchAcquire(t) ==
    /\ preState = "waiting"
    /\ fetchPc[t] = "acquire"
    /\ ~PreCtxDone
    /\ Cardinality(PreHolders) < maxPreloadWorkersNum
    /\ fetchPc' = [fetchPc EXCEPT ![t] = "fetching"]
    /\ UNCHANGED <<envVars, images, ctxCancelled, preState, imagesToPreload, resultCh,
                   preErr, result, preRet, upVars, clVars>>

\* sem.Acquire(ctx, 1) fails because the scope is done: the task returns the
\* context error, which the errgroup records if it is the first.
FetchRefused(t) ==
    /\ preState = "waiting"
    /\ fetchPc[t] = "acquire"
    /\ PreCtxDone
    /\ fetchPc' = [fetchPc EXCEPT ![t] = "refused"]
    /\ preErr' = IF preErr = NoErr THEN "canceled" ELSE preErr
    /\ UNCHANGED <<envVars, images, ctxCancelled, preState, imagesToPreload, resultCh,
                   result, preRet, upVars, clVars>>

\* The sent value of a fetch task that succeeded.
FetchResult(t) ==
    [slideIndex |-> imagesToPreload[t].slideIndex,
     imageIndex |-> imagesToPreload[t].imageIndex,
     image |-> NewImage(t, imagesToPreload[t].existingURL),
     objectID |-> imagesToPreload[t].objectID]

\* NewImage succeeds: the result is sent and the slot released.
FetchOk(t) ==
    /\ preState = "waiting"
    /\ fetchPc[t] = "fetching"
    /\ Len(resultCh) < Len(imagesToPreload)
    /\ resultCh' = Append(resultCh, FetchResult(t))
    /\ fetchPc' = [fetchPc EXCEPT ![t] = "ok"]
    /\ UNCHANGED <<envVars, images, ctxCancelled, preState, imagesToPreload, preErr,
                   result, preRet, upVars, clVars>>

\* Variant of FetchFail: the task swallows the error and returns nil.
FetchFailSwallowed(t) ==
    /\ preState = "waiting"
    /\ fetchPc[t] = "fetching"
    /\ fetchPc' = [fetchPc EXCEPT ![t] = "err"]
    /\ UNCHANGED <<envVars, images, ctxCancelled, preState, imagesToPreload, resultCh,
                   preErr, result, preRet, upVars, clVars>>

\* NewImage fails: the task returns the error and the slot is released.
FetchFail(t) ==
    /\ preState = "waiting"
    /\ fetchPc[t] = "fetching"
    /\ fetchPc' = [fetchPc EXCEPT ![t] = "err"]
    /\ preErr' = IF preErr = NoErr THEN "fetch" ELSE preErr
    /\ UNCHANGED <<envVars, images, ctxCancelled, preState, imagesToPreload, resultCh,
                   result, preRet, upVars, clVars>>

\* Lines 119-121: eg.Wait returns an error; nil and the error are returned.
PreloadWaitErr ==
    /\ preState = "waiting"
    /\ PreAllDone
    /\ preErr # NoErr
    /\ preRet' = PreloadFailure(result, preErr)
    /\ preState' = "returned"
    /\ UNCHANGED <<envVars, images, ctxCancelled, imagesToPreload, fetchPc, resultCh,
                   preErr, result, upVars, clVars>>

\* Lines 119-122: eg.Wait returns nil and resultCh is closed.
PreloadWaitOk ==
    /\ preState = "waiting"
    /\ PreAllDone
    /\ preErr = NoErr
    /\ preState' = "merging"
    /\ UNCHANGED <<envVars, images, ctxCancelled, imagesToPreload, fetchPc, resultCh,
                   preErr, result, preRet, upVars, clVars>>

\* Lines 125-146: one iteration of the merge loop.
PreloadMerge ==
    /\ preState = "merging"
    /\ Len(resultCh) > 0
    /\ result' = IF Head(resultCh).image # NilImage
                 THEN MergeOne(result, Head(resultCh)) ELSE result
    /\ resultCh' = Tail(resultCh)
    /\ UNCHANGED <<envVars, images, ctxCancelled, preState, imagesToPreload, fetchPc,
                   preErr, preRet, upVars, clVars>>

\* Lines 148-149: the channel is drained; the map is returned.
PreloadReturn ==
    /\ preState = "merging"
    /\ Len(resultCh) = 0
    /\ preRet' = PreloadSuccess(result)
    /\ preState' = "returned"
    /\ UNCHANGED <<envVars, images, ctxCancelled, imagesToPreload, fetchPc, resultCh,
                   preErr, result, upVars, clVars>>

\* The caller's context is cancelled.
CancelCtx ==
    /\ ~ctxCancelled
    /\ ctxCancelled' = TRUE
    /\ UNCHANGED <<envVars, images, preVars, upVars, clVars>>

\* Time passes.
Tick ==
    /\ now < MaxClock
    /\ now' = now + 1
    /\ UNCHANGED <<slides, actions, backend, images, ctxCancelled, preVars, upVars, clVars>>

\* -------------------------------------------------------- Image (entity)
\* Content equivalence of a current image and a desired image.
Equivalent(currentImage, image) ==
    /\ currentImage # NilImage
    /\ currentImage.content = image.content

IsUploadNeeded(image) == image.uploadState = "Needed"

\* Needed -> Uploading
StartUpload(image) == [image EXCEPT !.uploadState = "Uploading"]

\* Uploading -> Uploaded (with the public URL) or Failed (with the error)
SetUploadResult(image, publicURL, err) ==
    IF err = NoErr
    THEN [image EXCEPT !.uploadState = "Uploaded", !.url = publicURL]
    ELSE [image EXCEPT !.uploadState = "Failed", !.uploadError = err]

\* ------------------------------------------------- startUploadingImages
\* Variant of FoundInCurrent: the snapshot is looked up one slide too far.
FoundInCurrentOffByOne(currentImages, index, image) ==
    /\ (index + 1) \in DOMAIN currentImages
    /\ \E k \in DOMAIN currentImages[index + 1].currentImages :
          Equivalent(currentImages[index + 1].currentImages[k], image)

\* slices.ContainsFunc(currentImagesForSlide.currentImages, Equivalent(image))
\* when the slide has a snapshot, false when it has none.
FoundInCurrent(currentImages, index, image) ==
    /\ index \in DOMAIN currentImages
    /\ \E k \in DOMAIN currentImages[index].currentImages :
          Equivalent(currentImages[index].currentImages[k], image)

\* Variant of AlreadySelected: nothing is ever found in the selection.
AlreadySelectedNever(sel, i) == i \in Range(sel) /\ i \notin DOMAIN images

\* slices.Contains(imagesToUpload, image) on a slice of *Image: the same
\* object, whatever its content.
AlreadySelected(sel, i) == i \in Range(sel)

\* Variant of ShouldSelect: the upload state of the image is not looked at.
ShouldSelectAnyState(currentImages, index, sel, i) ==
    /\ ~FoundInCurrent(currentImages, index, images[i])
    /\ ~AlreadySelected(sel, i)

\* The condition under which the selection loop appends image i.
ShouldSelect(currentImages, index, sel, i) ==
    /\ ~FoundInCurrent(currentImages, index, images[i])
    /\ IsUploadNeeded(images[i])
    /\ ~AlreadySelected(sel, i)

\* The inner loop over action.slide.Images, from image p on.
RECURSIVE SelectSlide(_, _, _, _, _)
SelectSlide(currentImages, index, imgs, p, sel) ==
    IF p > Len(imgs) THEN sel
    ELSE SelectSlide(currentImages, index, imgs, p + 1,
                     IF ShouldSelect(currentImages, index, sel, imgs[p])
                     THEN Append(sel, imgs[p]) ELSE sel)

\* The outer loop over the actions, from action a on.
RECURSIVE SelectImages(_, _, _, _)
SelectImages(currentImages, acts, a, sel) ==
    IF a > Len(acts) THEN sel
    ELSE SelectImages(currentImages, acts, a + 1,
            IF acts[a].actionType \in {"update", "append"} /\ ~acts[a].slide.isNil
            THEN SelectSlide(currentImages, acts[a].index, acts[a].slide.Images, 1, sel)
            ELSE sel)

\* Variant of UpCtxDone: an error returned by a worker does not cancel the scope.
UpCtxDoneCallerOnly == ctxCancelled \/ coordPc = "closed"

\* The scope of the upload errgroup.
UpCtxDone == ctxCancelled \/ upErr # NoErr \/ coordPc = "closed"

UpHolders == {i \in DOMAIN workerPc : workerPc[i] \in {"uploading", "failing", "publish"}}

\* make(chan uploadedImageInfo, n)
\* Variant of MakeChan: the channel is made without a buffer.
MakeChanUnbuffered(n) ==
    [buf |-> <<>>, cap |-> 0, closed |-> FALSE, closes |-> 0, sendOnClosed |-> FALSE]

\* make(chan uploadedImageInfo, n)
MakeChan(n) == [buf |-> <<>>, cap |-> n, closed |-> FALSE, closes |-> 0, sendOnClosed |-> FALSE]

\* close(ch)
CloseChan(ch) == [ch EXCEPT !.closed = TRUE, !.closes = @ + 1]

\* ch <- v, when it does not block
SendChan(ch, v) ==
    IF ch.closed THEN [ch EXCEPT !.sendOnClosed = TRUE]
    ELSE [ch EXCEPT !.buf = Append(@, v)]

CanSend(ch) == ch.closed \/ Len(ch.buf) < ch.cap

\* Variant of DispatchSelect: with nothing selected the channel is returned
\* without being closed.
DispatchSelectNoClose ==
    /\ upState = "idle"
    /\ preState = "returned"
    /\ preRet.err = NoErr
    /\ LET sel == SelectImages(preRet.snap, actions, 1, <<>>) IN
       /\ imagesToUpload' = sel
       /\ uploadedCh' = MakeChan(Len(sel))
       /\ upState' = IF Len(sel) = 0 THEN "returned" ELSE "selected"
    /\ UNCHANGED <<envVars, images, ctxCancelled, preVars, workerPc, coordPc, upErr,
                   uploadCalls, uploadRet, published, filename, startCalls, resultCalls, clVars>>

\* Lines 157-185: the selection loop and the channel; with nothing selected
\* the channel is closed and returned at once. The caller dispatches only
\* after preloadCurrentImages has returned its map without an error.
DispatchSelect ==
    /\ upState = "idle"
    /\ preState = "returned"
    /\ preRet.err = NoErr
    /\ LET sel == SelectImages(preRet.snap, actions, 1, <<>>) IN
       /\ imagesToUpload' = sel
       /\ IF Len(sel) = 0
          THEN /\ uploadedCh' = CloseChan(MakeChan(0))
               /\ upState' = "returned"
          ELSE /\ uploadedCh' = MakeChan(Len(sel))
               /\ upState' = "selected"
    /\ UNCHANGED <<envVars, images, ctxCancelled, preVars, workerPc, coordPc, upErr,
                   uploadCalls, uploadRet, published, filename, startCalls, resultCalls, clVars>>

\* Variant of ClaimAll: only the first selected image is marked.
ClaimAllFirstOnly(imgs, sel) ==
    [i \in DOMAIN imgs |-> IF i = sel[1] THEN StartUpload(imgs[i]) ELSE imgs[i]]

\* Lines 188-191: every selected image is marked as upload in progress.
ClaimAll(imgs, sel) ==
    [i \in DOMAIN imgs |-> IF i \in Range(sel) THEN StartUpload(imgs[i]) ELSE imgs[i]]

\* The number of entries of the selection that are image i: the loop calls
\* StartUpload once per entry.
Occurrences(sel, i) == Cardinality({k \in DOMAIN sel : sel[k] = i})

DispatchClaim ==
    /\ upState = "selected"
    /\ images' = ClaimAll(images, imagesToUpload)
    /\ startCalls' = [i \in DOMAIN images |-> startCalls[i] + Occurrences(imagesToUpload, i)]
    /\ upState' = "claimed"
    /\ UNCHANGED <<envVars, ctxCancelled, preVars, imagesToUpload, workerPc, uploadedCh,
                   coordPc, upErr, uploadCalls, uploadRet, published, filename,
                   resultCalls, clVars>>

\* Lines 194-222: the background goroutine starts and hands every selected
\* image to a worker of its errgroup.
DispatchSpawn ==
    /\ upState = "claimed"
    /\ workerPc' = [i \in Range(imagesToUpload) |-> "acquire"]
    /\ coordPc' = "waiting"
    /\ upState' = "spawned"
    /\ UNCHANGED <<envVars, images, ctxCancelled, preVars, imagesToUpload, uploadedCh,
                   upErr, uploadCalls, uploadRet, published, filename, startCalls,
                   resultCalls, clVars>>

\* Variant of DispatchReturn: the caller gets the channel only once the
\* background goroutine has closed it.
DispatchReturnAfterClose ==
    /\ upState = "spawned"
    /\ coordPc = "closed"
    /\ upState' = "returned"
    /\ UNCHANGED <<envVars, images, ctxCancelled, preVars, imagesToUpload, workerPc,
                   uploadedCh, coordPc, upErr, uploadCalls, uploadRet, published,
                   filename, startCalls, resultCalls, clVars>>

\* Line 232: the channel is returned to the caller.
DispatchReturn ==
    /\ upState = "spawned"
    /\ upState' = "returned"
    /\ UNCHANGED <<envVars, images, ctxCancelled, preVars, imagesToUpload, workerPc,
                   uploadedCh, coordPc, upErr, uploadCalls, uploadRet, published,
                   filename, startCalls, resultCalls, clVars>>

\* time.Now().Format(time.RFC3339) at instant t: the second t falls in.
FormatRFC3339(t) == t \div TicksPerSecond

\* generateTempFilename at instant t: the fixed prefix and the formatted time.
generateTempFilename(t) == <<"________tmp-for-deck-", FormatRFC3339(t)>>

\* Variant of UploadAcquire: the worker does not wait for a free slot.
UploadAcquireNoLimit(i) ==
    /\ i \in DOMAIN workerPc
    /\ workerPc[i] = "acquire"
    /\ ~UpCtxDone
    /\ workerPc' = [workerPc EXCEPT ![i] = "uploading"]
    /\ filename' = [filename EXCEPT ![i] = generateTempFilename(now)]
    /\ uploadCalls' = [uploadCalls EXCEPT ![i] = @ + 1]
    /\ UNCHANGED <<envVars, images, ctxCancelled, preVars, upState, imagesToUpload,
                   uploadedCh, coordPc, upErr, uploadRet, published, startCalls,
                   resultCalls, clVars>>

\* sem.Acquire succeeds; the worker generates the file name and invokes the
\* backend Upload.
UploadAcquire(i) ==
    /\ i \in DOMAIN workerPc
    /\ workerPc[i] = "acquire"
    /\ ~UpCtxDone
    /\ Cardinality(UpHolders) < maxPreloadWorkersNum
    /\ workerPc' = [workerPc EXCEPT ![i] = "uploading"]
    /\ filename' = [filename EXCEPT ![i] = generateTempFilename(now)]
    /\ uploadCalls' = [uploadCalls EXCEPT ![i] = @ + 1]
    /\ UNCHANGED <<envVars, images, ctxCancelled, preVars, upState, imagesToUpload,
                   uploadedCh, coordPc, upErr, uploadRet, published, startCalls,
                   resultCalls, clVars>>

\* Variant of UploadRefused: the worker returns the error without recording
\* it on the image.
UploadRefusedNoRecord(i) ==
    /\ i \in DOMAIN workerPc
    /\ workerPc[i] = "acquire"
    /\ UpCtxDone
    /\ workerPc' = [workerPc EXCEPT ![i] = "done"]
    /\ upErr' = IF upErr = NoErr THEN "canceled" ELSE upErr
    /\ UNCHANGED <<envVars, images, ctxCancelled, preVars, upState, imagesToUpload,
                   uploadedCh, coordPc, uploadCalls, uploadRet, published, filename,
                   startCalls, resultCalls, clVars>>

\* sem.Acquire fails on the done scope: the context error is set on the
\* image and returned.
UploadRefused(i) ==
    /\ i \in DOMAIN workerPc
    /\ workerPc[i] = "acquire"
    /\ UpCtxDone
    /\ images' = [images EXCEPT ![i] = SetUploadResult(@, NoURL, "canceled")]
    /\ resultCalls' = [resultCalls EXCEPT ![i] = @ + 1]
    /\ workerPc' = [workerPc EXCEPT ![i] = "done"]
    /\ upErr' = IF upErr = NoErr THEN "canceled" ELSE upErr
    /\ UNCHANGED <<envVars, ctxCancelled, preVars, upState, imagesToUpload, uploadedCh,
                   coordPc, uploadCalls, uploadRet, published, filename, startCalls, clVars>>

\* What the backend Upload returns for image i when it succeeds. Google Drive
\* returns the identifier of the file it created; S3 and GCS return the object
\* key, which is the configured prefix followed by the file name.
BackendUpload(i) ==
    [publicURL |-> <<"url", i>>,
     resourceID |-> IF backend = "gdrive" THEN <<"file", i>> ELSE <<"key", filename[i]>>]

\* The backend Upload fails on its own: the error is set on the image. The
\* worker still holds its slot and has not yet returned.
UploadFail(i) ==
    /\ i \in DOMAIN workerPc
    /\ workerPc[i] = "uploading"
    /\ images' = [images EXCEPT ![i] = SetUploadResult(@, NoURL, "upload")]
    /\ resultCalls' = [resultCalls EXCEPT ![i] = @ + 1]
    /\ workerPc' = [workerPc EXCEPT ![i] = "failing"]
    /\ UNCHANGED <<envVars, ctxCancelled, preVars, upState, imagesToUpload, uploadedCh,
                   coordPc, upErr, uploadCalls, uploadRet, published, filename,
                   startCalls, clVars>>

\* The backend Upload, which was handed the scope of the errgroup, gives up
\* because that scope is done: the context error is set on the image and
\* returned, which changes nothing for a scope that is done already.
UploadAbort(i) ==
    /\ i \in DOMAIN workerPc
    /\ workerPc[i] = "uploading"
    /\ UpCtxDone
    /\ images' = [images EXCEPT ![i] = SetUploadResult(@, NoURL, "aborted")]
    /\ resultCalls' = [resultCalls EXCEPT ![i] = @ + 1]
    /\ workerPc' = [workerPc EXCEPT ![i] = "done"]
    /\ upErr' = IF upErr = NoErr THEN "aborted" ELSE upErr
    /\ UNCHANGED <<envVars, ctxCancelled, preVars, upState, imagesToUpload, uploadedCh,
                   coordPc, uploadCalls, uploadRet, published, filename, startCalls, clVars>>

\* Lines 213 and 206: the worker returns the error and releases its slot; the
\* errgroup records the error if it is the first and cancels the scope.
UploadReturnErr(i) ==
    /\ i \in DOMAIN workerPc
    /\ workerPc[i] = "failing"
    /\ workerPc' = [workerPc EXCEPT ![i] = "done"]
    /\ upErr' = IF upErr = NoErr THEN images[i].uploadError ELSE upErr
    /\ UNCHANGED <<envVars, images, ctxCancelled, preVars, upState, imagesToUpload,
                   uploadedCh, coordPc, uploadCalls, uploadRet, published, filename,
                   startCalls, resultCalls, clVars>>

\* Variant of UploadOk: the worker goes on to send the event without having
\* recorded the result on the image.
UploadOkResultLater(i) ==
    /\ i \in DOMAIN workerPc
    /\ workerPc[i] = "uploading"
    /\ uploadRet' = [uploadRet EXCEPT ![i] = BackendUpload(i)]
    /\ workerPc' = [workerPc EXCEPT ![i] = "publish"]
    /\ UNCHANGED <<envVars, images, ctxCancelled, preVars, upState, imagesToUpload, uploadedCh,
                   coordPc, upErr, uploadCalls, published, filename, startCalls,
                   resultCalls, clVars>>

\* The backend Upload succeeds: the public URL is set on the image.
UploadOk(i) ==
    /\ i \in DOMAIN workerPc
    /\ workerPc[i] = "uploading"
    /\ uploadRet' = [uploadRet EXCEPT ![i] = BackendUpload(i)]
    /\ images' = [images EXCEPT ![i] = SetUploadResult(@, BackendUpload(i).publicURL, NoErr)]
    /\ resultCalls' = [resultCalls EXCEPT ![i] = @ + 1]
    /\ workerPc' = [workerPc EXCEPT ![i] = "publish"]
    /\ UNCHANGED <<envVars, ctxCancelled, preVars, upState, imagesToUpload, uploadedCh,
                   coordPc, upErr, uploadCalls, published, filename, startCalls, clVars>>

\* Variant of UploadedInfo: the public URL is sent in place of the resource ID.
UploadedInfoURL(i) == [resourceID |-> uploadRet[i].publicURL, image |-> i]

\* The completion event a worker sends for image i.
UploadedInfo(i) == [resourceID |-> uploadRet[i].resourceID, image |-> i]

\* Line 219: the event is sent; the worker returns nil and releases its slot.
UploadPublish(i) ==
    /\ i \in DOMAIN workerPc
    /\ workerPc[i] = "publish"
    /\ CanSend(uploadedCh)
    /\ uploadedCh' = SendChan(uploadedCh, UploadedInfo(i))
    /\ published' = [published EXCEPT ![i] = @ + 1]
    /\ workerPc' = [workerPc EXCEPT ![i] = "done"]
    /\ UNCHANGED <<envVars, images, ctxCancelled, preVars, upState, imagesToUpload,
                   coordPc, upErr, uploadCalls, uploadRet, filename, startCalls,
                   resultCalls, clVars>>

\* Variant of WaitReturned: the wait ends with the first worker that finishes.
WaitReturnedAny(pcs) == \E i \in DOMAIN pcs : pcs[i] = "done"

\* eg.Wait has returned in the background goroutine.
WaitReturned(pcs) == \A i \in DOMAIN pcs : pcs[i] = "done"

\* Lines 225-229: eg.Wait returns and the channel is closed.
CoordClose ==
    /\ coordPc = "waiting"
    /\ WaitReturned(workerPc)
    /\ uploadedCh' = CloseChan(uploadedCh)
    /\ coordPc' = "closed"
    /\ UNCHANGED <<envVars, images, ctxCancelled, preVars, upState, imagesToUpload,
                   workerPc, upErr, uploadCalls, uploadRet, published, filename, startCalls, resultCalls, clVars>>

\* ------------------------------------------------ cleanupUploadedImages
Deleting == {k \in DOMAIN deletePc : deletePc[k].pc = "deleting"}

NoDelete == [pc |-> "none", resourceID |-> <<"", 0>>, calls |-> 0]

\* The caller hands the channel to cleanupUploadedImages.
CleanupStart ==
    /\ clState = "idle"
    /\ upState = "returned"
    /\ clState' = "select"
    /\ UNCHANGED <<envVars, images, ctxCancelled, preVars, upVars, clInfo, received,
                   deletePc, clRet>>

\* select: an event is received.
CleanupReceive ==
    /\ clState = "select"
    /\ Len(uploadedCh.buf) > 0
    /\ clInfo' = Head(uploadedCh.buf)
    /\ received' = [received EXCEPT ![Head(uploadedCh.buf).image] = @ + 1]
    /\ uploadedCh' = [uploadedCh EXCEPT !.buf = Tail(@)]
    /\ clState' = "acquire"
    /\ UNCHANGED <<envVars, images, ctxCancelled, preVars, upState, imagesToUpload,
                   workerPc, coordPc, upErr, uploadCalls, uploadRet, published,
                   filename, startCalls, resultCalls, deletePc, clRet>>

\* select: the channel is closed and drained; go to wg.Wait.
CleanupClosed ==
    /\ clState = "select"
    /\ Len(uploadedCh.buf) = 0
    /\ uploadedCh.closed
    /\ clState' = "wgWait"
    /\ UNCHANGED <<envVars, images, ctxCancelled, preVars, upVars, clInfo, received,
                   deletePc, clRet>>

\* Variant of CleanupCtxDone: the cancellation is looked at only once the
\* stream has been closed.
CleanupCtxDoneAfterClose ==
    /\ clState = "select"
    /\ ctxCancelled
    /\ uploadedCh.closed
    /\ clState' = "returned"
    /\ clRet' = "canceled"
    /\ UNCHANGED <<envVars, images, ctxCancelled, preVars, upVars, clInfo, received,
                   deletePc>>

\* select: ctx.Done; the context error is returned.
CleanupCtxDone ==
    /\ clState = "select"
    /\ ctxCancelled
    /\ clState' = "returned"
    /\ clRet' = "canceled"
    /\ UNCHANGED <<envVars, images, ctxCancelled, preVars, upVars, clInfo, received,
                   deletePc>>

\* sem.Acquire succeeds: the deletion goroutine is started and invokes the
\* backend Delete.
CleanupLaunch ==
    /\ clState = "acquire"
    /\ ~ctxCancelled
    /\ Cardinality(Deleting) < maxPreloadWorkersNum
    /\ deletePc' = [deletePc EXCEPT ![clInfo.image] =
                        [pc |-> "deleting", resourceID |-> clInfo.resourceID, calls |-> @.calls + 1]]
    /\ clInfo' = NoInfo
    /\ clState' = "select"
    /\ UNCHANGED <<envVars, images, ctxCancelled, preVars, upVars, received, clRet>>

\* Variant of CleanupRefused: the error is returned only once the deletions
\* already started have finished.
CleanupRefusedAfterWait ==
    /\ clState = "acquire"
    /\ ctxCancelled
    /\ Deleting = {}
    /\ clState' = "returned"
    /\ clRet' = "acquire"
    /\ UNCHANGED <<envVars, images, ctxCancelled, preVars, upVars, clInfo, received,
                   deletePc>>

\* sem.Acquire fails on the cancelled context: cleanup returns the error.
CleanupRefused ==
    /\ clState = "acquire"
    /\ ctxCancelled
    /\ clState' = "returned"
    /\ clRet' = "acquire"
    /\ UNCHANGED <<envVars, images, ctxCancelled, preVars, upVars, clInfo, received,
                   deletePc>>

\* Variant of DeleteDone: a failed Delete makes cleanup return the error.
DeleteDoneFailFast(k, outcome) ==
    /\ k \in DOMAIN deletePc
    /\ deletePc[k].pc = "deleting"
    /\ deletePc' = [deletePc EXCEPT ![k].pc = outcome]
    /\ IF outcome = "failed"
       THEN clState' = "returned" /\ clRet' = "delete"
       ELSE UNCHANGED <<clState, clRet>>
    /\ UNCHANGED <<envVars, images, ctxCancelled, preVars, upVars, clInfo, received>>

\* The backend Delete returns; an error is logged only.
DeleteDone(k, outcome) ==
    /\ k \in DOMAIN deletePc
    /\ deletePc[k].pc = "deleting"
    /\ deletePc' = [deletePc EXCEPT ![k].pc = outcome]
    /\ UNCHANGED <<envVars, images, ctxCancelled, preVars, upVars, clState, clInfo,
                   received, clRet>>

\* Variant of CleanupReturnNil: cleanup returns without waiting for the
\* deletion goroutines.
CleanupReturnNilNoWait ==
    /\ clState = "wgWait"
    /\ clState' = "returned"
    /\ clRet' = NoErr
    /\ UNCHANGED <<envVars, images, ctxCancelled, preVars, upVars, clInfo, received,
                   deletePc>>

\* wg.Wait returns: cleanup returns nil.
CleanupReturnNil ==
    /\ clState = "wgWait"
    /\ Deleting = {}
    /\ clState' = "returned"
    /\ clRet' = NoErr
    /\ UNCHANGED <<envVars, images, ctxCancelled, preVars, upVars, clInfo, received,
                   deletePc>>

\* --------------------------------------------------------- specifications
PoolImage(content, state) ==
    [content |-> content, uploadState |-> state, url |-> NoURL, uploadError |-> NoErr]

\* The desired Image objects: images 1 and 2 are distinct objects with the
\* same bytes, those of the first image of slide 0; the others hold new
\* content; the last one needs no upload.
PoolContent(i) == IF i <= 2 THEN UrlOf(0, 1) ELSE 100 + i

PoolState(i) == IF i = NumImages THEN "NotNeeded" ELSE "Needed"

Pool == [i \in 1..NumImages |-> PoolImage(PoolContent(i), PoolState(i))]

PreIdle ==
    /\ preState = "idle"
    /\ imagesToPreload = <<>>
    /\ fetchPc = <<>>
    /\ resultCh = <<>>
    /\ preErr = NoErr
    /\ result = EmptyMap
    /\ preRet = [snap |-> EmptyMap, snapNil |-> TRUE, err |-> NoErr]

UpIdle ==
    /\ upState = "idle"
    /\ imagesToUpload = <<>>
    /\ workerPc = <<>>
    /\ uploadedCh = MakeChan(0)
    /\ coordPc = "none"
    /\ upErr = NoErr
    /\ uploadCalls = [i \in DOMAIN images |-> 0]
    /\ uploadRet = [i \in DOMAIN images |-> NoRet]
    /\ published = [i \in DOMAIN images |-> 0]
    /\ filename = [i \in DOMAIN images |-> generateTempFilename(0)]
    /\ startCalls = [i \in DOMAIN images |-> 0]
    /\ resultCalls = [i \in DOMAIN images |-> 0]

ClIdle ==
    /\ clState = "idle"
    /\ clInfo = NoInfo
    /\ received = [i \in DOMAIN images |-> 0]
    /\ deletePc = [i \in DOMAIN images |-> NoDelete]
    /\ clRet = NoErr

\* preloadCurrentImages alone: the first slide holds any page elements, the
\* second one embedded image; the batch is any sequence of update and append
\* actions on indices 0..2, the last of which is no slide at all.
PreloadActions ==
    SeqsUpTo([actionType : {"update", "append"}, index : 0..2, slide : {NilSlide}], MaxActions)

InitPreload ==
    /\ \E k0 \in SeqsUpTo(ElemKinds, MaxElems) :
          slides = <<MkSlide(0, k0), MkSlide(1, <<"image">>)>>
    /\ actions \in PreloadActions
    /\ Len(CollectImages(actions, slides, 1)) <= MaxTasks
    /\ images = Pool
    /\ ctxCancelled = FALSE
    /\ backend = "gdrive"
    /\ now = 0
    /\ PreIdle /\ UpIdle /\ ClIdle

PreloadStep ==
    \/ PreloadStart
    \/ \E t \in DOMAIN fetchPc : FetchAcquire(t)
    \/ \E t \in DOMAIN fetchPc : FetchRefused(t)
    \/ \E t \in DOMAIN fetchPc : FetchOk(t)
    \/ \E t \in DOMAIN fetchPc : FetchFail(t)
    \/ PreloadWaitErr
    \/ PreloadWaitOk
    \/ PreloadMerge
    \/ PreloadReturn

NextPreload ==
    \/ PreloadStep
    \/ CancelCtx

SpecPreload == InitPreload /\ [][NextPreload]_vars

UploadStep ==
    \/ DispatchSelect
    \/ DispatchClaim
    \/ DispatchSpawn
    \/ DispatchReturn
    \/ \E i \in DOMAIN workerPc : UploadAcquire(i)
    \/ \E i \in DOMAIN workerPc : UploadRefused(i)
    \/ \E i \in DOMAIN workerPc : UploadFail(i)
    \/ \E i \in DOMAIN workerPc : UploadAbort(i)
    \/ \E i \in DOMAIN workerPc : UploadReturnErr(i)
    \/ \E i \in DOMAIN workerPc : UploadOk(i)
    \/ \E i \in DOMAIN workerPc : UploadPublish(i)
    \/ CoordClose

CleanupStep ==
    \/ CleanupStart
    \/ CleanupReceive
    \/ CleanupClosed
    \/ CleanupCtxDone
    \/ CleanupLaunch
    \/ CleanupRefused
    \/ \E k \in DOMAIN deletePc : DeleteDone(k, "ok")
    \/ \E k \in DOMAIN deletePc : DeleteDone(k, "failed")
    \/ CleanupReturnNil

\* The whole pipeline on one slide of StressTasks images, all of them
\* replaced by new content.
InitStress ==
    /\ slides = <<MkSlide(0, [e \in 1..StressTasks |-> "image"])>>
    /\ images = [i \in 1..StressTasks |-> PoolImage(100 + i, "Needed")]
    /\ actions = <<[actionType |-> "update", index |-> 0,
                    slide |-> [isNil |-> FALSE, Images |-> [i \in 1..StressTasks |-> i]]]>>
    /\ ctxCancelled = FALSE
    /\ backend = "gdrive"
    /\ now = 0
    /\ PreIdle /\ UpIdle /\ ClIdle

\* The pipeline on a presentation of two slides: every slide holds one
\* embedded image and the batch has one action per slide, an update or an
\* append whose slide is nil or carries one image of the pool or none, or a
\* delete.
SlideActions(s) ==
    [actionType : {"update", "append"}, index : {s},
     slide : {NilSlide} \cup
             {[isNil |-> FALSE, Images |-> imgs] : imgs \in SeqsUpTo(1..NumImages, 1)}]
    \cup {[actionType |-> "delete", index |-> s, slide |-> NilSlide]}

Init ==
    /\ slides = <<MkSlide(0, <<"image">>), MkSlide(1, <<"image">>)>>
    /\ \E a0 \in SlideActions(0), a1 \in SlideActions(1) : actions = <<a0, a1>>
    /\ images = Pool
    /\ ctxCancelled = FALSE
    /\ backend = "gdrive"
    /\ now = 0
    /\ PreIdle /\ UpIdle /\ ClIdle

Next ==
    \/ PreloadStep
    \/ CancelCtx
    \/ UploadStep
    \/ CleanupStep

SpecStress == InitStress /\ [][Next]_vars

\* The pipeline under a running clock and each of the storage backends: the
\* only slide is updated to hold a new image and a slide holding another
\* image is appended.
Backends == {"gdrive", "s3", "gcs"}

InitTimed ==
    /\ slides = <<MkSlide(0, <<"image">>)>>
    /\ actions = <<[actionType |-> "update", index |-> 0,
                    slide |-> [isNil |-> FALSE, Images |-> <<3>>]],
                   [actionType |-> "append", index |-> 1,
                    slide |-> [isNil |-> FALSE, Images |-> <<1>>]]>>
    /\ images = Pool
    /\ ctxCancelled = FALSE
    /\ backend \in Backends
    /\ now = 0
    /\ PreIdle /\ UpIdle /\ ClIdle

NextTimed ==
    \/ Next
    \/ Tick

SpecTimed == InitTimed /\ [][NextTimed]_vars

Spec == Init /\ [][Next]_vars

\* The pipeline with a cleanup that keeps running: its goroutine is scheduled
\* and the Delete calls it has made return. Nothing is assumed of the upload
\* side, so the stream may stay open for ever.
SpecLive == Init /\ [][Next]_vars /\ WF_vars(CleanupStep)

\* The pipeline with preload and upload sides that keep running: their
\* goroutines are scheduled and the fetches and backend Uploads they have
\* started return. Nothing is assumed of cleanup, so the stream may never be
\* read.
SpecProgress == Init /\ [][Next]_vars /\ WF_vars(PreloadStep) /\ WF_vars(UploadStep)

\* ------------------------------------------------------------- properties
Selected == Range(imagesToUpload)

\* The number of events for image i waiting in the completion stream.
InStream(i) == Cardinality({k \in DOMAIN uploadedCh.buf : uploadedCh.buf[k].image = i})

\* C1: within one startUploadingImages invocation, byte-identical content
\* carried by two images is uploaded at most once and announced by at most
\* one completion event, whether or not the two are the same Image object.
C1_OneUploadPerContent ==
    \A i, j \in DOMAIN images :
        (i # j /\ images[i].content = images[j].content)
            => /\ uploadCalls[i] + uploadCalls[j] <= 1
               /\ published[i] + published[j] <= 1

\* C2: once a fetch has failed, preloadCurrentImages returns an error and a
\* nil map; nothing of what the other fetches produced reaches the caller.
C2_AllOrNothing ==
    (preState = "returned" /\ \E t \in DOMAIN fetchPc : fetchPc[t] = "err")
        => /\ preRet.err # NoErr
           /\ preRet.snapNil
           /\ preRet.snap = EmptyMap

C2_Witness ==
    /\ preState = "returned"
    /\ \E t \in DOMAIN fetchPc : fetchPc[t] = "err"
    /\ Cardinality({t \in DOMAIN fetchPc : fetchPc[t] = "ok"}) >= 2
    /\ preRet.err = "fetch"

\* The slides an update action targets, and on each the page elements that
\* hold an embedded image with a content URL.
TargetSlides ==
    {actions[a].index : a \in {b \in DOMAIN actions :
        actions[b].actionType = "update" /\ actions[b].index < Len(slides)}}

ImageElems(s) ==
    {e \in DOMAIN slides[s + 1] :
        /\ slides[s + 1][e].image
        /\ ~slides[s + 1][e].placeholder
        /\ slides[s + 1][e].contentUrl # 0}

\* The position of element e among the image elements of slide s.
RankOf(s, e) == Cardinality({x \in ImageElems(s) : x < e})

\* C3: when every fetch succeeds the returned map holds, for each targeted
\* slide, exactly its image elements, each at its position among them and
\* each with its object ID recorded, whatever order the fetches completed in.
C3_SnapshotComplete ==
    (preState = "returned" /\ \A t \in DOMAIN fetchPc : fetchPc[t] = "ok")
        => /\ preRet.err = NoErr
           /\ ~preRet.snapNil
           /\ DOMAIN preRet.snap = {s \in TargetSlides : ImageElems(s) # {}}
           /\ \A s \in DOMAIN preRet.snap :
                 /\ Len(preRet.snap[s].currentImages) = Cardinality(ImageElems(s))
                 /\ \A e \in ImageElems(s) :
                       LET img == preRet.snap[s].currentImages[RankOf(s, e) + 1] IN
                       /\ img # NilImage
                       /\ img.content = slides[s + 1][e].contentUrl
                       /\ <<img, slides[s + 1][e].objectId>>
                              \in preRet.snap[s].currentImageObjectIDMap

\* Both slides are in the returned map, and on the first an element that is
\* skipped precedes the image, whose slot therefore differs from its position.
C3_Witness ==
    /\ preState = "returned"
    /\ Len(imagesToPreload) = 2
    /\ \A t \in DOMAIN fetchPc : fetchPc[t] = "ok"
    /\ DOMAIN preRet.snap = {0, 1}
    /\ ImageElems(0) = {2}
    /\ Len(preRet.snap[0].currentImages) = 1
    /\ Len(preRet.snap[1].currentImages) = 1

\* C4: each stage admits at most maxPreloadWorkersNum tasks at a time:
\* fetches in preload, backend uploads in dispatch, backend deletes in cleanup.
C4_AdmissionLimit ==
    /\ Cardinality(PreHolders) <= maxPreloadWorkersNum
    /\ Cardinality(UpHolders) <= maxPreloadWorkersNum
    /\ Cardinality(Deleting) <= maxPreloadWorkersNum

\* The upload stage is full, one more worker waits for a slot, and a delete
\* of the cleanup stage is in flight next to them.
C4_Witness ==
    /\ Cardinality(UpHolders) = maxPreloadWorkersNum
    /\ Cardinality(Deleting) >= 1
    /\ Cardinality(UpHolders) + Cardinality(Deleting) > maxPreloadWorkersNum

\* C5: when nothing is selected the returned stream is closed and empty, no
\* goroutine was started, no backend upload was invoked, no image changed,
\* and a consumer selecting on the stream sees it closed at once.
C5_EmptySelection ==
    (upState = "returned" /\ Len(imagesToUpload) = 0)
        => /\ uploadedCh.closed
           /\ uploadedCh.closes = 1
           /\ uploadedCh.buf = <<>>
           /\ coordPc = "none"
           /\ DOMAIN workerPc = {}
           /\ \A i \in DOMAIN images :
                 uploadCalls[i] = 0 /\ published[i] = 0 /\ images[i] = Pool[i]
           /\ (clState = "select" => (ENABLED CleanupClosed) /\ ~(ENABLED CleanupReceive))

C5_Witness ==
    /\ upState = "returned"
    /\ Len(imagesToUpload) = 0
    /\ \E a \in DOMAIN actions : ~actions[a].slide.isNil /\ Len(actions[a].slide.Images) > 0
    /\ clState = "returned"
    /\ clRet = NoErr

\* C6: cleanup returns an error only when the context was cancelled, and
\* when it returns nil the backend Delete has been invoked for every event
\* of the stream, whichever of the deletes failed.
C6_DeleteFailuresIgnored ==
    /\ (clState = "returned" /\ clRet # NoErr) => ctxCancelled
    /\ (clState = "returned" /\ clRet = NoErr) =>
          \A i \in DOMAIN images : deletePc[i].calls = published[i]

C6_Witness ==
    /\ clState = "returned"
    /\ clRet = NoErr
    /\ ~ctxCancelled
    /\ \E i, j \in DOMAIN images : deletePc[i].pc = "failed" /\ deletePc[j].pc = "ok"

\* The scenario: slides 0 and 1 hold X and Y; slide 0 is updated to hold X
\* (image 1) and slide 1 to hold Z (image 3).
ScenarioXYZ ==
    /\ slides = <<MkSlide(0, <<"image">>), MkSlide(1, <<"image">>)>>
    /\ actions = <<[actionType |-> "update", index |-> 0,
                    slide |-> [isNil |-> FALSE, Images |-> <<1>>]],
                   [actionType |-> "update", index |-> 1,
                    slide |-> [isNil |-> FALSE, Images |-> <<3>>]]>>

ContentsOf(imgs) == [k \in DOMAIN imgs |-> imgs[k].content]

\* C7: in the scenario preload yields {0:[X], 1:[Y]}, dispatch selects and
\* uploads Z only, and a cleanup that returns nil has invoked the backend
\* Delete once, for the resource the upload of Z returned, and for nothing else.
C7_EndToEnd ==
    ScenarioXYZ =>
        /\ (preState = "returned" /\ preRet.err = NoErr) =>
              /\ DOMAIN preRet.snap = {0, 1}
              /\ ContentsOf(preRet.snap[0].currentImages) = <<UrlOf(0, 1)>>
              /\ ContentsOf(preRet.snap[1].currentImages) = <<UrlOf(1, 1)>>
        /\ upState \notin {"idle"} => imagesToUpload = <<3>>
        /\ \A i \in DOMAIN images : uploadCalls[i] <= (IF i = 3 THEN 1 ELSE 0)
        /\ (clState = "returned" /\ clRet = NoErr) =>
              /\ \A i \in DOMAIN images :
                    deletePc[i].calls = (IF i = 3 /\ images[3].uploadState = "Uploaded" THEN 1 ELSE 0)
              /\ deletePc[3].calls = 1 => deletePc[3].resourceID = uploadRet[3].resourceID

C7_Witness ==
    /\ ScenarioXYZ
    /\ clState = "returned"
    /\ clRet = NoErr
    /\ uploadCalls[3] = 1
    /\ deletePc[3].calls = 1
    /\ deletePc[3].pc = "ok"

\* C8: the completion stream is closed at most once, it is closed only when
\* every selected image's worker has finished and recorded its outcome, and
\* no worker ever sends on the closed stream.
C8_CloseAfterWorkers ==
    /\ uploadedCh.closes <= 1
    /\ uploadedCh.closed = (uploadedCh.closes = 1)
    /\ ~uploadedCh.sendOnClosed
    /\ uploadedCh.closed =>
          \A i \in Selected :
              /\ i \in DOMAIN workerPc
              /\ workerPc[i] = "done"
              /\ images[i].uploadState \in {"Uploaded", "Failed"}

C8_Witness ==
    /\ uploadedCh.closed
    /\ \E i, j \in Selected :
          images[i].uploadState = "Uploaded" /\ images[j].uploadState = "Failed"

\* C9: an image has at most one completion event; an event exists only for
\* an image whose upload succeeded and carries the resource ID the upload
\* returned; a failed image has none; once its worker is done an uploaded
\* image has exactly one; and every event sent is in the stream or was received.
C9_OneEventPerSuccess ==
    /\ \A i \in DOMAIN images :
          /\ published[i] <= 1
          /\ published[i] = 1 => images[i].uploadState = "Uploaded" /\ uploadRet[i] # NoRet
          /\ images[i].uploadState = "Failed" => published[i] = 0
          /\ (i \in DOMAIN workerPc /\ workerPc[i] = "done" /\ images[i].uploadState = "Uploaded")
                => published[i] = 1
          /\ InStream(i) + received[i] = published[i]
    /\ \A k \in DOMAIN uploadedCh.buf :
          uploadedCh.buf[k].resourceID = BackendUpload(uploadedCh.buf[k].image).resourceID

C9_Witness ==
    /\ coordPc = "closed"
    /\ \E i, j \in Selected :
          /\ images[i].uploadState = "Uploaded"
          /\ published[i] = 1
          /\ InStream(i) = 1
          /\ images[j].uploadState = "Failed"
          /\ images[j].uploadError = "upload"

\* C10: startUploadingImages never waits: after the selection each of its
\* remaining steps, the return included, is enabled whatever the workers,
\* the backend or the consumer have done.
C10_NonBlockingReturn ==
    /\ upState = "selected" => ENABLED DispatchClaim
    /\ upState = "claimed" => ENABLED DispatchSpawn
    /\ upState = "spawned" => ENABLED DispatchReturn

\* The stream has been returned while no worker has yet acquired a slot.
C10_Witness ==
    /\ upState = "returned"
    /\ Len(imagesToUpload) = 2
    /\ \A i \in Selected : workerPc[i] = "acquire" /\ uploadCalls[i] = 0
    /\ clState = "idle"

\* C11: when cleanupUploadedImages has returned nil the stream is closed and
\* drained, no Delete it launched is still running, and every event that was
\* sent on the stream has been received and handed to a Delete.
C11_NilAfterCloseAndDeletes ==
    (clState = "returned" /\ clRet = NoErr)
        => /\ uploadedCh.closed
           /\ uploadedCh.buf = <<>>
           /\ coordPc \in {"none", "closed"}
           /\ Deleting = {}
           /\ \A i \in DOMAIN images :
                 /\ received[i] = published[i]
                 /\ deletePc[i].calls = received[i]
                 /\ deletePc[i].calls > 0 => deletePc[i].pc \in {"ok", "failed"}

\* Cleanup has returned nil after the Delete of two events.
C11_Witness ==
    /\ clState = "returned"
    /\ clRet = NoErr
    /\ Cardinality({i \in DOMAIN images : deletePc[i].calls = 1}) = 2

\* Cleanup is blocked in its select: the stream is open and holds no event.
CleanupBlocked ==
    /\ clState = "select"
    /\ ~uploadedCh.closed
    /\ uploadedCh.buf = <<>>

\* C12: a cleanup blocked on an open, empty stream whose context is cancelled
\* can only take the cancellation branch, which returns the context error;
\* and once the context is cancelled a running cleanup eventually returns,
\* whether or not the stream is ever closed.
C12_CancelledCleanupReturns ==
    /\ []((CleanupBlocked /\ ctxCancelled) =>
            /\ ENABLED CleanupCtxDone
            /\ ~(ENABLED CleanupReceive)
            /\ ~(ENABLED CleanupClosed))
    /\ [][(CleanupBlocked /\ ctxCancelled /\ clState' # clState)
              => (clState' = "returned" /\ clRet' = "canceled")]_vars
    /\ ((ctxCancelled /\ clState \in {"select", "acquire", "wgWait"}) ~> clState = "returned")

\* Cleanup has returned the cancellation error while the stream is still open
\* and a worker has yet to finish.
C12_Witness ==
    /\ clState = "returned"
    /\ clRet = "canceled"
    /\ ctxCancelled
    /\ ~uploadedCh.closed
    /\ uploadedCh.buf = <<>>
    /\ \E i \in DOMAIN workerPc : workerPc[i] # "done"

\* The actions whose slide content is handed to the dispatcher.
ContentActions ==
    {a \in DOMAIN actions :
        actions[a].actionType \in {"update", "append"} /\ ~actions[a].slide.isNil}

\* Image i occurs in the slide content of action a, needs upload, and no
\* image of the snapshot of the slide the action targets is equivalent to it.
NewIn(a, i) ==
    /\ i \in Range(actions[a].slide.Images)
    /\ Pool[i].uploadState = "Needed"
    /\ ~(/\ actions[a].index \in DOMAIN preRet.snap
          /\ \E c \in Range(preRet.snap[actions[a].index].currentImages) :
                c # NilImage /\ c.content = Pool[i].content)

\* C13: once the selection is made, an image is selected exactly when some
\* update or append action with a slide holds it, it needs upload and
\* nothing in that slide's snapshot is equivalent to it; it is selected once;
\* and only selected images are ever uploaded, so that no image in state
\* NotNeeded and no image whose every occurrence is matched by its slide's
\* snapshot is uploaded.
C13_SelectionRule ==
    upState # "idle" =>
        /\ Selected = {i \in DOMAIN images : \E a \in ContentActions : NewIn(a, i)}
        /\ \A i \in DOMAIN images : Occurrences(imagesToUpload, i) <= 1
        /\ \A i \in DOMAIN images :
              uploadCalls[i] > 0 =>
                  /\ i \in Selected
                  /\ Pool[i].uploadState # "NotNeeded"
                  /\ \E a \in ContentActions : NewIn(a, i)

\* The image of the first action is equivalent to the snapshot of its slide
\* and was passed over; the new image of the second has been uploaded.
C13_Witness ==
    /\ upState = "returned"
    /\ actions[1].actionType = "update"
    /\ actions[1].slide.Images = <<2>>
    /\ 0 \in DOMAIN preRet.snap
    /\ actions[2].slide.Images = <<3>>
    /\ imagesToUpload = <<3>>
    /\ uploadCalls[3] = 1

\* C14: once the completion stream is closed every selected image is
\* Uploaded with the public URL the backend returned and no error, or Failed
\* with its error and no URL; none is left Uploading, and its result was set.
C14_TerminalOnClose ==
    uploadedCh.closed =>
        \A i \in Selected :
            \/ /\ images[i].uploadState = "Uploaded"
               /\ images[i].url = BackendUpload(i).publicURL
               /\ images[i].url # NoURL
               /\ images[i].uploadError = NoErr
            \/ /\ images[i].uploadState = "Failed"
               /\ images[i].uploadError \in {"upload", "aborted", "canceled"}
               /\ images[i].url = NoURL

\* The stream is closed over one image uploaded, one whose upload failed and
\* one that was never admitted.
C14_Witness ==
    /\ uploadedCh.closed
    /\ \E i, j, k \in Selected :
          /\ images[i].uploadState = "Uploaded"
          /\ images[j].uploadError = "upload"
          /\ images[k].uploadError = "canceled"
          /\ uploadCalls[k] = 0

\* C15: the backend Delete is invoked at most once per resource identifier,
\* only for the identifier a successful Upload returned, after it returned,
\* and never for an image whose upload failed.
C15_DeleteOncePerResource ==
    /\ \A i \in DOMAIN images :
          /\ deletePc[i].calls <= 1
          /\ deletePc[i].calls > 0 =>
                /\ images[i].uploadState = "Uploaded"
                /\ uploadRet[i] # NoRet
                /\ deletePc[i].resourceID = uploadRet[i].resourceID
          /\ images[i].uploadState = "Failed" => deletePc[i].calls = 0
    /\ \A i, j \in DOMAIN images :
          (i # j /\ deletePc[i].calls > 0 /\ deletePc[j].calls > 0)
              => deletePc[i].resourceID # deletePc[j].resourceID

\* C16: whenever the background goroutine exists, a worker has started or
\* the backend Upload has been invoked, every selected image has left the
\* Needed state and no other image has.
C16_ClaimBeforeSpawn ==
    (coordPc # "none" \/ DOMAIN workerPc # {} \/ \E i \in DOMAIN images : uploadCalls[i] > 0)
        => /\ \A i \in Selected : images[i].uploadState \in {"Uploading", "Uploaded", "Failed"}
           /\ \A i \in DOMAIN images \ Selected : images[i] = Pool[i]

\* The workers of two selected images have just been started, both images
\* being marked already.
C16_Witness ==
    /\ upState = "spawned"
    /\ coordPc = "waiting"
    /\ Len(imagesToUpload) = 2
    /\ \A i \in Selected : workerPc[i] = "acquire" /\ images[i].uploadState = "Uploading"

\* The upload state of image i is terminal.
Terminal(i) == images[i].uploadState \in {"Uploaded", "Failed"}

\* C17: a selected image is given to one worker; StartUpload is called on it
\* once, when it is claimed, and on no other image; SetUploadResult is called
\* on it at most once, by its worker, and exactly once when that worker is
\* done, whichever way it went; and a terminal state is never written again.
C17_SingleOwner ==
    /\ [](\A i \in DOMAIN images :
            /\ Occurrences(imagesToUpload, i) <= 1
            /\ startCalls[i] = (IF i \in Selected /\ upState \notin {"idle", "selected"}
                                THEN 1 ELSE 0)
            /\ resultCalls[i] = (IF Terminal(i) THEN 1 ELSE 0)
            /\ resultCalls[i] = 1 => i \in DOMAIN workerPc
            /\ (i \in DOMAIN workerPc /\ workerPc[i] = "done") => resultCalls[i] = 1)
    /\ [][\A i \in DOMAIN images :
            /\ Terminal(i) => images'[i] = images[i]
            /\ images'[i] # images[i] =>
                  \/ images[i].uploadState = "Needed" /\ images'[i].uploadState = "Uploading"
                  \/ /\ images[i].uploadState = "Uploading"
                     /\ workerPc[i] \in {"acquire", "uploading"}
                     /\ workerPc'[i] # workerPc[i]
                     /\ \A j \in DOMAIN workerPc \ {i} : workerPc'[j] = workerPc[j]]_vars

\* The stream is closed over two images whose results were set once each,
\* one by a worker that uploaded it and one by a worker that was refused.
C17_Witness ==
    /\ uploadedCh.closed
    /\ \E i, j \in Selected :
          /\ images[i].uploadState = "Uploaded"
          /\ images[j].uploadError = "canceled"
          /\ resultCalls[i] = 1 /\ resultCalls[j] = 1
          /\ startCalls[i] = 1 /\ startCalls[j] = 1

\* C18: once a worker's error has cancelled the scope, a worker that holds
\* no slot yet can only be refused: its image becomes Failed with the
\* cancellation error, the backend Upload is not invoked for it and no event
\* is sent for it.
C18_NoAdmissionAfterFailure ==
    /\ [](\A i \in DOMAIN images :
            images[i].uploadError = "canceled" =>
                /\ images[i].uploadState = "Failed"
                /\ uploadCalls[i] = 0
                /\ published[i] = 0)
    /\ [][\A i \in DOMAIN workerPc :
            (upErr # NoErr /\ workerPc[i] = "acquire" /\ workerPc'[i] # "acquire")
                => /\ workerPc'[i] = "done"
                   /\ images'[i].uploadState = "Failed"
                   /\ images'[i].uploadError = "canceled"
                   /\ uploadCalls'[i] = 0
                   /\ published'[i] = 0]_vars

\* An upload failed while all slots were taken, and the worker that was
\* waiting for a slot has been refused.
C18_Witness ==
    /\ ~ctxCancelled
    /\ upErr = "upload"
    /\ Cardinality({i \in Selected : uploadCalls[i] = 1}) = maxPreloadWorkersNum
    /\ \E j \in Selected :
          /\ workerPc[j] = "done"
          /\ uploadCalls[j] = 0
          /\ images[j].uploadError = "canceled"

\* C19: when an upload has failed and the caller has not cancelled, no
\* upload that was admitted is failed by the cancellation of the scope: an
\* admitted upload ends Uploaded or Failed with an error of its own.
C19_InFlightNotAborted ==
    (upErr = "upload" /\ ~ctxCancelled)
        => \A i \in DOMAIN images :
              uploadCalls[i] = 1 => images[i].uploadError # "aborted"

\* C20: once a fetch has failed, a task that holds no slot never starts its
\* fetch, and a fetch in flight does not run to a successful completion.
C20_FetchFailFast ==
    [][preErr = "fetch" =>
          \A t \in DOMAIN fetchPc :
              /\ fetchPc[t] = "acquire" => fetchPc'[t] \in {"acquire", "refused"}
              /\ fetchPc[t] = "fetching" => fetchPc'[t] # "ok"]_vars

\* C21: the result map is written only by the merge loop of the caller, after
\* every fetch task has returned; while a task is still running the map is
\* empty, and a step of a task changes nothing but its own position, the
\* result channel and the error of the group.
C21_MergeAfterWait ==
    /\ []((\E t \in DOMAIN fetchPc : fetchPc[t] \in {"acquire", "fetching"})
            => (result = EmptyMap /\ preState = "waiting"))
    /\ [][result' # result => (preState = "merging" /\ PreAllDone /\ fetchPc' = fetchPc)]_vars
    /\ [][(preState # "idle" /\ fetchPc' # fetchPc) =>
            (result' = result /\ preRet' = preRet /\ imagesToPreload' = imagesToPreload
             /\ preState' = preState)]_vars

\* The merge loop has placed a first result and has another one to place.
C21_Witness ==
    /\ preState = "merging"
    /\ result # EmptyMap
    /\ Len(resultCh) >= 1
    /\ Len(imagesToPreload) >= 2
    /\ PreAllDone

\* The fetch tasks collected for element e of slide s.
TasksFor(s, e) ==
    {t \in DOMAIN imagesToPreload : imagesToPreload[t].objectID = <<s, e>>}

\* The update actions of the batch whose index is s.
UpdatesOf(s) ==
    {a \in DOMAIN actions : actions[a].actionType = "update" /\ actions[a].index = s}

\* C22: a fetch is scheduled only for the image elements (no placeholder, a
\* non-empty content URL) of slides targeted by an update action whose index
\* is within the slide count, once per such action; append actions and
\* out-of-range indices contribute nothing; when no element is eligible the
\* operation returns an empty, non-nil map and no error, and starts no task.
C22_Eligibility ==
    preState # "idle" =>
        /\ \A t \in DOMAIN imagesToPreload :
              LET task == imagesToPreload[t] IN
              /\ task.slideIndex \in TargetSlides
              /\ \E e \in ImageElems(task.slideIndex) :
                    /\ task.objectID = <<task.slideIndex, e>>
                    /\ task.existingURL = slides[task.slideIndex + 1][e].contentUrl
        /\ \A s \in 0..(Len(slides) - 1) : \A e \in DOMAIN slides[s + 1] :
              Cardinality(TasksFor(s, e)) =
                  IF e \in ImageElems(s) THEN Cardinality(UpdatesOf(s)) ELSE 0
        /\ (\A s \in TargetSlides : ImageElems(s) = {})
              => /\ preState = "returned"
                 /\ preRet = [snap |-> EmptyMap, snapNil |-> FALSE, err |-> NoErr]
                 /\ fetchPc = <<>>
                 /\ resultCh = <<>>
        /\ (\E s \in TargetSlides : ImageElems(s) # {})
              => DOMAIN fetchPc = DOMAIN imagesToPreload

\* An update of a slide holding only a placeholder and an image without
\* content URL, and an append at the index of a slide that holds an image:
\* nothing is eligible and the empty map is returned at once.
C22_Witness ==
    /\ preState = "returned"
    /\ Len(actions) = 2
    /\ actions[1].actionType = "update" /\ actions[1].index = 0
    /\ actions[2].actionType = "append" /\ actions[2].index = 1
    /\ Len(slides[1]) = 2
    /\ slides[1][1].placeholder
    /\ slides[1][2].image /\ slides[1][2].contentUrl = 0
    /\ ImageElems(1) # {}
    /\ imagesToPreload = <<>>
    /\ ~preRet.snapNil /\ preRet.err = NoErr

\* C23: every image sequence of a returned map is gap-free: it has one slot
\* per eligible image of the slide, no slot is nil, and the image in slot k
\* was fetched from the eligible element that has k eligible elements before
\* it, whatever order the fetches completed in.
C23_GapFree ==
    (preState = "returned" /\ ~preRet.snapNil) =>
        \A s \in DOMAIN preRet.snap :
            LET seq == preRet.snap[s].currentImages IN
            /\ DOMAIN seq = 1..Cardinality(ImageElems(s))
            /\ \A k \in DOMAIN seq :
                  /\ seq[k] # NilImage
                  /\ \E t \in DOMAIN imagesToPreload :
                        /\ seq[k] = NewImage(t, imagesToPreload[t].existingURL)
                        /\ imagesToPreload[t].slideIndex = s
                        /\ imagesToPreload[t].objectID[2] \in ImageElems(s)
                        /\ RankOf(s, imagesToPreload[t].objectID[2]) = k - 1

\* Slide 0 holds a shape and then an image, and two update actions name it:
\* the single slot of the returned sequence holds the image the first of the
\* two fetch tasks produced, so that task completed last.
C23_Witness ==
    /\ preState = "returned"
    /\ ~preRet.snapNil
    /\ Len(slides[1]) = 2
    /\ ~slides[1][1].image
    /\ ImageElems(0) = {2}
    /\ Cardinality(UpdatesOf(0)) = 2
    /\ Len(preRet.snap[0].currentImages) = 1
    /\ preRet.snap[0].currentImages[1].id = <<"current", 1>>

\* The images named by a completion event: sent, waiting in the stream, in
\* the hands of cleanup or handed to a deletion task.
Announced ==
    {i \in DOMAIN images :
        \/ published[i] > 0
        \/ InStream(i) > 0
        \/ received[i] > 0
        \/ (clInfo # NoInfo /\ clInfo.image = i)
        \/ deletePc[i].calls > 0}

\* C24: the public URL is stored on the image before its completion event is
\* published: every event in the stream or received names an image that is
\* Uploaded and carries the URL the backend returned; an image carries a URL
\* only in state Uploaded, and the URL is written only by the step from
\* Uploading to Uploaded, never on an image that is Needed or Failed.
C24_URLBeforeEvent ==
    /\ [](\A i \in Announced :
              /\ images[i].uploadState = "Uploaded"
              /\ images[i].url # NoURL
              /\ images[i].url = uploadRet[i].publicURL)
    /\ [](\A i \in DOMAIN images :
              images[i].url # NoURL => images[i].uploadState = "Uploaded")
    /\ [][\A i \in DOMAIN images :
              images'[i].url # images[i].url =>
                  /\ images[i].uploadState = "Uploading"
                  /\ images'[i].uploadState = "Uploaded"
                  /\ published[i] = 0 /\ published'[i] = 0]_vars

\* One event waits in the stream and another has been received; the upload of
\* neither image has been seen by a reader before its URL was set.
C24_Witness ==
    /\ \E i, j \in Selected :
          /\ i # j
          /\ InStream(i) = 1
          /\ received[j] = 1
          /\ images[i].url = <<"url", i>>
          /\ images[j].url = <<"url", j>>
    /\ ~uploadedCh.closed

\* C25: within one startUploadingImages invocation no two backend Upload
\* calls are given the same generated file name, so that on a backend that
\* uses the name as object key two images never get the same resource ID.
C25_FreshFilename ==
    \A i, j \in DOMAIN images :
        (i # j /\ uploadCalls[i] > 0 /\ uploadCalls[j] > 0)
            => /\ filename[i] # filename[j]
               /\ (uploadRet[i] # NoRet /\ uploadRet[j] # NoRet)
                      => uploadRet[i].resourceID # uploadRet[j].resourceID

\* C26: every completion event cleanupUploadedImages has received has led to
\* a backend Delete call for its resource ID by the time cleanup returns,
\* whatever it returns: no event taken off the stream is dropped.
C26_NoEventDropped ==
    clState = "returned" =>
        /\ clInfo = NoInfo
        /\ \A i \in DOMAIN images :
              /\ deletePc[i].calls = received[i]
              /\ received[i] > 0 => deletePc[i].resourceID = uploadRet[i].resourceID

\* C27: on its cancellation paths cleanupUploadedImages returns without
\* waiting for the deletions it has started: with the context cancelled the
\* return is possible at the select and at the limiter whatever deletions are
\* in flight, the return is a single step that leaves them as they are, and
\* an error is returned only on a cancelled context.
C27_ErrorReturnDoesNotWait ==
    /\ []((ctxCancelled /\ clState = "select" /\ Deleting # {}) => ENABLED CleanupCtxDone)
    /\ []((ctxCancelled /\ clState = "acquire" /\ Deleting # {}) => ENABLED CleanupRefused)
    /\ [][(clState # "returned" /\ clState' = "returned" /\ clRet' # NoErr)
              => /\ ctxCancelled
                 /\ clState \in {"select", "acquire"}
                 /\ deletePc' = deletePc]_vars
    /\ []((clState = "returned" /\ Deleting # {}) => (clRet # NoErr /\ ctxCancelled))

\* Cleanup has returned an error while a Delete it started is still in flight.
C27_Witness ==
    /\ clState = "returned"
    /\ clRet # NoErr
    /\ \E k \in Deleting : deletePc[k].calls = 1 /\ received[k] = 1

\* C28: the completion stream has room for one event per selected image and
\* no more events are ever sent, so a worker that has to send can always do
\* so; provided every admitted Upload returns, the background goroutine
\* closes the stream whether or not anything is ever received from it.
\* Likewise the result channel of preload has room for every task, a fetch
\* task can always hand over its result, and preload returns once the fetches
\* it has admitted have returned.
C28_NoBlockedSender ==
    /\ [](upState # "idle" =>
              /\ uploadedCh.cap = Len(imagesToUpload)
              /\ Len(uploadedCh.buf) <= uploadedCh.cap
              /\ Cardinality({i \in DOMAIN images : published[i] > 0}) <= uploadedCh.cap
              /\ \A i \in DOMAIN images : published[i] <= 1)
    /\ [](\A i \in DOMAIN workerPc : workerPc[i] = "publish" => ENABLED UploadPublish(i))
    /\ (coordPc = "waiting" ~> (coordPc = "closed" /\ uploadedCh.closed))
    /\ [](Len(resultCh) <= Len(imagesToPreload))
    /\ [](\A t \in DOMAIN fetchPc :
              (preState = "waiting" /\ fetchPc[t] = "fetching") => ENABLED FetchOk(t))
    /\ (preState = "waiting" ~> preState = "returned")

\* The stream has been closed with the events of both selected images still
\* in it: cleanup was never started and nothing was received.
C28_Witness ==
    /\ coordPc = "closed"
    /\ uploadedCh.closed
    /\ Len(imagesToUpload) = 2
    /\ Len(uploadedCh.buf) = uploadedCh.cap
    /\ uploadedCh.cap = 2
    /\ clState = "idle"
    /\ \A i \in DOMAIN images : received[i] = 0

====
